---- MODULE Spec2Model ----
(***************************************************************************)
(* Model of the notebook benthic_ERSEM_L4_BECS.ipynb: the detailed and the *)
(* simplified benthic carbon-flux pipelines.  The state is the notebook's  *)
(* global namespace, an action is the execution of one code cell.          *)
(*                                                                         *)
(* Numbers are IEEE binary32 values, the dtype of the flux and stock       *)
(* series: a finite positive number is <<m, e>> with 2^23 <= m < 2^24 and  *)
(* value m * 2^e, and every operation rounds to nearest, ties to even.     *)
(* Edge codes and compartment codes are sequences of characters, so that   *)
(* the slices fl[0:2] and fl[2:] are computed as Python computes them.     *)
(***************************************************************************)
EXTENDS Integers, Sequences, FiniteSets, TLC

(***************************************************************************)
(* Bounds of the model.                                                    *)
(***************************************************************************)
NRows == 2          \* time steps in each dataset (at least 2: squeeze() keeps the time axis)
NShift == 2         \* number of background value patterns
MaxManual == 1      \* cells run by hand after Run All in an interactive session

(***************************************************************************)
(* binary32 arithmetic.                                                    *)
(***************************************************************************)
\* 2^n for 0 <= n <= 30
Pow2(n) ==
  << 1, 2, 4, 8, 16, 32, 64, 128, 256, 512, 1024, 2048, 4096, 8192, 16384, 32768, 65536,
     131072, 262144, 524288, 1048576, 2097152, 4194304, 8388608, 16777216, 33554432,
     67108864, 134217728, 268435456, 536870912, 1073741824 >>[n + 1]

\* the number of bits of s, 0 <= s < 2^31
BitLen(s) == Cardinality({n \in 0..30 : s >= Pow2(n)})

NaN == <<-1, 0>>
Inf == <<-2, 0>>
Zero == <<0, 0>>

\* s * 2^e (plus a nonzero fraction below the last bit of s when sticky),
\* rounded to 24 significant bits, nearest-even.
RoundNorm(s, e, sticky) ==
  LET n == BitLen(s) IN
  IF n <= 24 THEN <<s * Pow2(24 - n), e - (24 - n)>>
  ELSE LET k == n - 24
           q == s \div Pow2(k)
           r == s % Pow2(k)
           half == Pow2(k - 1)
           up == r > half \/ (r = half /\ (sticky \/ q % 2 = 1))
           q1 == IF up THEN q + 1 ELSE q
       IN IF q1 = 16777216 THEN <<8388608, e + k + 1>> ELSE <<q1, e + k>>

FMul(a, b) ==
  IF a = NaN \/ b = NaN THEN NaN
  ELSE IF a = Inf \/ b = Inf THEN (IF a = Zero \/ b = Zero THEN NaN ELSE Inf)
  ELSE IF a = Zero \/ b = Zero THEN Zero
  ELSE LET ah == a[1] \div 4096
           al == a[1] % 4096
           bh == b[1] \div 4096
           bl == b[1] % 4096
           mid == ah * bl + al * bh
           lo == (mid % 4096) * 4096 + al * bl
           H == ah * bh + mid \div 4096 + lo \div 16777216
           L == lo % 16777216
       IN RoundNorm(H * 4 + L \div 4194304, a[2] + b[2] + 22, L % 4194304 # 0)

\* k more quotient bits of rem / d by long division (rem < d < 2^24, k <= 7)
DivStep(qr, d, k) ==
  <<qr[1] * Pow2(k) + (qr[2] * Pow2(k)) \div d, (qr[2] * Pow2(k)) % d>>
\* the quotient q extended by 25 bits, and the remainder
LongDiv(rem, d, q) ==
  DivStep(DivStep(DivStep(DivStep(<<q, rem>>, d, 7), d, 7), d, 7), d, 4)

FDiv(a, b) ==
  IF a = NaN \/ b = NaN THEN NaN
  ELSE IF b = Zero THEN (IF a = Zero THEN NaN ELSE Inf)
  ELSE IF a = Inf THEN (IF b = Inf THEN NaN ELSE Inf)
  ELSE IF b = Inf \/ a = Zero THEN Zero
  ELSE LET qr == LongDiv(a[1] % b[1], b[1], a[1] \div b[1])
       IN RoundNorm(qr[1], a[2] - b[2] - 25, qr[2] # 0)

FAdd(a, b) ==
  IF a = NaN \/ b = NaN THEN NaN
  ELSE IF a = Inf \/ b = Inf THEN Inf
  ELSE IF a = Zero THEN b
  ELSE IF b = Zero THEN a
  ELSE LET hi == IF a[2] >= b[2] THEN a ELSE b
           lw == IF a[2] >= b[2] THEN b ELSE a
           d == hi[2] - lw[2]
       IN IF d > 26 THEN hi
          ELSE RoundNorm(hi[1] * 8 + (lw[1] * 8) \div Pow2(d), hi[2] - 3,
                         (lw[1] * 8) % Pow2(d) # 0)

\* a < b on binary32 values (false when either is NaN)
FLess(a, b) ==
  IF a = NaN \/ b = NaN THEN FALSE
  ELSE IF a = Inf THEN FALSE
  ELSE IF b = Inf THEN TRUE
  ELSE IF b = Zero THEN FALSE
  ELSE IF a = Zero THEN TRUE
  ELSE a[2] < b[2] \/ (a[2] = b[2] /\ a[1] < b[1])

FromInt(n) == IF n = 0 THEN Zero ELSE RoundNorm(n, 0, FALSE)

(***************************************************************************)
(* Literals of the notebook, as binary32 values.                           *)
(***************************************************************************)
F0_8 == <<13421773, -24>>      \* 0.8
F0_35 == <<11744051, -25>>     \* 0.35
F0_85 == <<14260634, -24>>     \* 0.85
F0_4 == <<13421773, -25>>      \* 0.4
F0_25 == <<8388608, -25>>      \* 0.25
F0_5 == <<8388608, -24>>       \* 0.5
F10 == <<10485760, -20>>       \* 10.
TargetYear == 2016

\* value < 1e-5, the comparison of a binary32 scalar with the Python float
\* 1e-5 made on exact values: m * 2^e < 10^-5.
LessThan1em5(v) ==
  IF v = NaN \/ v = Inf THEN FALSE
  ELSE IF v = Zero THEN TRUE
  ELSE IF v[2] < -40 THEN TRUE
  ELSE IF v[2] > -40 THEN FALSE
  ELSE v[1] <= 10995116       \* floor(2^40 / 10^5)

\* value < 0.2 on exact values: 5 * m * 2^e < 1.
LessThan0_2(v) ==
  IF v = NaN \/ v = Inf THEN FALSE
  ELSE IF v = Zero THEN TRUE
  ELSE IF v[2] >= 0 THEN FALSE
  ELSE IF v[2] <= -27 THEN TRUE
  ELSE 5 * v[1] < Pow2(-v[2])


(***************************************************************************)
(* Sequences.                                                              *)
(***************************************************************************)
Range(s) == {s[i] : i \in 1..Len(s)}
Has(s, v) == \E i \in 1..Len(s) : s[i] = v
IndexOf(s, v) == CHOOSE i \in 1..Len(s) : s[i] = v
Take(s, n) == SubSeq(s, 1, IF n <= Len(s) THEN n ELSE Len(s))   \* s[0:n]
Drop(s, n) == SubSeq(s, n + 1, Len(s))                          \* s[n:]

\* An unbound name of the namespace is <<>>; a bound one is <<value>>.
Undef == <<>>
Bound(v) == v # <<>>
Val(v) == v[1]

(***************************************************************************)
(* Compartment codes and edge codes.                                       *)
(***************************************************************************)
R4 == <<"R", "4">>
R6 == <<"R", "6">>
R8 == <<"R", "8">>
P1 == <<"P", "1">>
P2 == <<"P", "2">>
P3 == <<"P", "3">>
P4 == <<"P", "4">>
Q1 == <<"Q", "1">>
Q6 == <<"Q", "6">>
Q7 == <<"Q", "7">>
H1 == <<"H", "1">>
H2 == <<"H", "2">>
Y2 == <<"Y", "2">>
Y3 == <<"Y", "3">>
Y4 == <<"Y", "4">>
G3 == <<"G", "3">>

\* statement  df[col] = xd.var.values.squeeze()
Plain(src, dst, var) ==
  [col |-> src \o dst, var |-> var, k1 |-> Zero, pred |-> <<>>, k2 |-> Zero, ing |-> <<>>]
\* statement  df[col] = xd.var.values.squeeze() + df.pred*k1 + k2*(df.ing1 + df.ing2 + ...)
Derived(src, dst, var, k1, pred, k2, ing) ==
  [col |-> src \o dst, var |-> var, k1 |-> k1, pred |-> pred, k2 |-> k2, ing |-> ing]

\* the deposition cell, the same statements in both variants
DepositionStmts ==
  << Plain(R4, Q6, "R4_dep1c"), Plain(R4, Q7, "R4_dep2c"),
     Plain(R6, Q6, "R6_dep1c"), Plain(R6, Q7, "R6_dep2c"),
     Plain(R8, Q6, "R8_dep1c"), Plain(R8, Q7, "R8_dep2c"),
     Plain(P1, Q6, "P1_dep1c"), Plain(P1, Q1, "P1_dep2c"), Plain(P1, Q7, "P1_dep3c"),
     Plain(P2, Q6, "P2_dep1c"), Plain(P2, Q1, "P2_dep2c"), Plain(P2, Q7, "P2_dep3c"),
     Plain(P3, Q6, "P3_dep1c"), Plain(P3, Q1, "P3_dep2c"), Plain(P3, Q7, "P3_dep3c"),
     Plain(P4, Q6, "P4_dep1c"), Plain(P4, Q1, "P4_dep2c"), Plain(P4, Q7, "P4_dep3c") >>

\* the three return edges to detritus: release + egested predation + egested ingestion
ReturnY2 ==
  Derived(Y2, Q6, "Y2_fYQPc", F0_8, Q6 \o Y2, F0_35, <<H1 \o Y2, H2 \o Y2, Y4 \o Y2>>)
\* the Y3 return edge with the assimilation coefficient of Y2 (0.8 for 0.85)
ReturnY3CoefficientOfY2 ==
  Derived(Y3, Q6, "Y3_fYQPc", F0_8, Q6 \o Y3, F0_35,
          <<P1 \o Y3, P2 \o Y3, P3 \o Y3, R6 \o Y3, H1 \o Y3>>)
ReturnY3 ==
  Derived(Y3, Q6, "Y3_fYQPc", F0_85, Q6 \o Y3, F0_35,
          <<P1 \o Y3, P2 \o Y3, P3 \o Y3, R6 \o Y3, H1 \o Y3>>)
ReturnY4 ==
  Derived(Y4, Q6, "Y4_fYQPc", F0_4, Q6 \o Y4, F0_25, <<Y4 \o Y4, H1 \o Y4, H2 \o Y4>>)

\* the faunal cell with the Y2 return edge computed first, before the columns it reads
FaunalStmtsReturnFirst ==
  << ReturnY2,
     Plain(Q6, R6, "Q6_resuspension_flux_c"),
     Plain(Q1, H1, "H1_fc1"), Plain(Q6, H1, "H1_fc2"), Plain(Q7, H1, "H1_fc3"),
     Plain(H1, G3, "H1_fHG3c"), Plain(H1, Q1, "H1_fHQ1c"), Plain(H1, Q6, "H1_fHQPc"),
     Plain(Q6, H2, "H2_fc1"), Plain(Q7, H2, "H2_fc2"),
     Plain(H2, G3, "H2_fHG3c"), Plain(H2, Q6, "H2_fHQPc"),
     Plain(H1, Y2, "Y2_fprey1c"), Plain(H2, Y2, "Y2_fprey2c"),
     Plain(Q6, Y2, "Y2_fprey3c"), Plain(Y4, Y2, "Y2_fprey4c"),
     Plain(Y2, G3, "Y2_fYG3c"),
     Plain(P1, Y3, "Y3_fprey1c"), Plain(P2, Y3, "Y3_fprey2c"), Plain(P3, Y3, "Y3_fprey3c"),
     Plain(R6, Y3, "Y3_fprey4c"), Plain(H1, Y3, "Y3_fprey5c"), Plain(Q6, Y3, "Y3_fprey6c"),
     Plain(Y3, G3, "Y3_fYG3c"),
     ReturnY3,
     Plain(H1, Y4, "Y4_fprey1c"), Plain(H2, Y4, "Y4_fprey2c"),
     Plain(Y4, Y4, "Y4_fprey3c"), Plain(Q6, Y4, "Y4_fprey4c"),
     Plain(Y4, G3, "Y4_fYG3c"),
     ReturnY4 >>
\* the resuspension, bacterial and faunal cell of the detailed variant
FaunalStmts ==
  << Plain(Q6, R6, "Q6_resuspension_flux_c"),
     Plain(Q1, H1, "H1_fc1"), Plain(Q6, H1, "H1_fc2"), Plain(Q7, H1, "H1_fc3"),
     Plain(H1, G3, "H1_fHG3c"), Plain(H1, Q1, "H1_fHQ1c"), Plain(H1, Q6, "H1_fHQPc"),
     Plain(Q6, H2, "H2_fc1"), Plain(Q7, H2, "H2_fc2"),
     Plain(H2, G3, "H2_fHG3c"), Plain(H2, Q6, "H2_fHQPc"),
     Plain(H1, Y2, "Y2_fprey1c"), Plain(H2, Y2, "Y2_fprey2c"),
     Plain(Q6, Y2, "Y2_fprey3c"), Plain(Y4, Y2, "Y2_fprey4c"),
     Plain(Y2, G3, "Y2_fYG3c"),
     ReturnY2,
     Plain(P1, Y3, "Y3_fprey1c"), Plain(P2, Y3, "Y3_fprey2c"), Plain(P3, Y3, "Y3_fprey3c"),
     Plain(R6, Y3, "Y3_fprey4c"), Plain(H1, Y3, "Y3_fprey5c"), Plain(Q6, Y3, "Y3_fprey6c"),
     Plain(Y3, G3, "Y3_fYG3c"),
     ReturnY3,
     Plain(H1, Y4, "Y4_fprey1c"), Plain(H2, Y4, "Y4_fprey2c"),
     Plain(Y4, Y4, "Y4_fprey3c"), Plain(Q6, Y4, "Y4_fprey4c"),
     Plain(Y4, G3, "Y4_fYG3c"),
     ReturnY4 >>

\* stock statements  dv[code] = xd.var.values.squeeze()
Stock(code, var) ==
  [col |-> code, var |-> var, k1 |-> Zero, pred |-> <<>>, k2 |-> Zero, ing |-> <<>>]
StockStmtsD ==
  << Stock(Q1, "Q1_c"), Stock(Q6, "Q6_c"), Stock(Q7, "Q7_c"), Stock(H1, "H1_c"),
     Stock(H2, "H2_c"), Stock(Y2, "Y2_c"), Stock(Y3, "Y3_c"), Stock(Y4, "Y4_c"),
     Stock(G3, "G3_c") >>

\* remineralisation and resuspension statements of the simplified variant
ReminStmts ==
  << Plain(Q6, G3, "Q6_bremin"), Plain(Q7, G3, "Q7_bremin"), Plain(Q1, G3, "Q1_bremin"),
     Plain(Q6, R6, "Q6_resuspension_flux_c") >>
StockStmtsS == << Stock(Q1, "Q1_c"), Stock(Q6, "Q6_c"), Stock(Q7, "Q7_c") >>

\* the literal edge lists of the two rendering cells
FluxesD ==
  << P2 \o Q1, P3 \o Q1, P1 \o Q1, P1 \o Q6, P1 \o Q7, P2 \o Q6, P2 \o Q7, P3 \o Q6,
     P3 \o Q7, R4 \o Q6, R4 \o Q7, R6 \o Q6, R6 \o Q7, R8 \o Q6, R8 \o Q7,
     Q6 \o R6, Q1 \o H1, Q6 \o H1, Q7 \o H1, H1 \o G3, H1 \o Q1, H1 \o Q6, Q6 \o H2,
     Q7 \o H2,
     H2 \o G3, H2 \o Q6, H1 \o Y2, H2 \o Y2, Q6 \o Y2, Y4 \o Y2, Y2 \o G3, Y2 \o Q6,
     P1 \o Y3, P2 \o Y3, P3 \o Y3, R6 \o Y3, H1 \o Y3, Q6 \o Y3, Y3 \o G3, Y3 \o Q6,
     H1 \o Y4, H2 \o Y4, Y4 \o Y4, Q6 \o Y4, Y4 \o G3, Y4 \o Q6 >>
\* the simplified edge list with the phytoplankton column P4Q6 added
FluxesSWithP4 ==
  << P3 \o Q6, P3 \o Q7, P2 \o Q1, P3 \o Q1, P1 \o Q1, P1 \o Q6, P1 \o Q7, R4 \o Q6,
     R4 \o Q7, R6 \o Q6, R6 \o Q7, R8 \o Q6, R8 \o Q7,
     Q6 \o R6, Q1 \o G3, Q6 \o G3, Q7 \o G3, P4 \o Q6 >>
FluxesS ==
  << P3 \o Q6, P3 \o Q7, P2 \o Q1, P3 \o Q1, P1 \o Q1, P1 \o Q6, P1 \o Q7, R4 \o Q6,
     R4 \o Q7, R6 \o Q6, R6 \o Q7, R8 \o Q6, R8 \o Q7,
     Q6 \o R6, Q1 \o G3, Q6 \o G3, Q7 \o G3 >>

\* the nodes placed by s.node(code, pos=..., fixed='true') in the two rendering cells
Placed(code, pos) == [name |-> code, pos |-> pos]
LayoutD ==
  << Placed(R8, "1,5!"), Placed(R6, "2,5!"), Placed(R4, "3,5!"), Placed(P1, "4,5!"),
     Placed(P2, "5,5!"), Placed(P3, "6,5!"), Placed(Q7, "2,4!"), Placed(Q6, "3.5,4!"),
     Placed(Q1, "1,4!"), Placed(H1, "2,3!"), Placed(H2, "3,3!"), Placed(Y4, "4,2!"),
     Placed(Y2, "2,2!"), Placed(Y3, "5,3!"), Placed(G3, "3.5,1!") >>
LayoutS ==
  << Placed(R8, "1,5!"), Placed(R6, "2,5!"), Placed(R4, "3,5!"), Placed(P1, "4,5!"),
     Placed(P2, "5,5!"), Placed(P3, "6,5!"), Placed(Q7, "2,4!"), Placed(Q6, "3.5,4!"),
     Placed(Q1, "1,4!"), Placed(G3, "3.5,1!") >>

\* names read from each dataset, in reading order
VarsOf(stmts) == [i \in 1..Len(stmts) |-> stmts[i].var]
VarListD == VarsOf(DepositionStmts) \o VarsOf(FaunalStmts) \o VarsOf(StockStmtsD)
VarListS == VarsOf(DepositionStmts) \o VarsOf(ReminStmts) \o VarsOf(StockStmtsS)


(***************************************************************************)
(* Input files.  A dataset is its time axis (the year of every time step)  *)
(* and its variables, each a series of binary32 values over that axis.     *)
(***************************************************************************)
Years == {2015, 2016}

\* background values: 0, 2^-17, 0.125, the two binary32 neighbours of 0.2, 1, 2.5
LowVals ==
  << Zero, <<8388608, -40>>, <<8388608, -26>>, <<13421772, -26>>, <<13421773, -26>>,
     <<8388608, -23>>, <<10485760, -22>> >>
\* dominant values: 5, 33.25, 45.5
HighVals == << <<10485760, -21>>, <<8716288, -18>>, <<11927552, -18>> >>

\* variables that can carry the dominant flux of a file, first choice and tie partner
PeakVarsD == <<"Y4_fprey4c", "R6_dep1c", "P4_dep1c">>
PeakVarsS == <<"Q6_bremin", "R6_dep1c", "P4_dep1c">>
TieVarD == "H1_fc2"
TieVarS == "Q7_bremin"
MissingChoices == {"", "R6_dep1c", "Y4_fYQPc", "Q6_bremin", "Q6_c"}

MkFile(varList, times, shift, peakVar, tieVar, peakVal, missing) ==
  [ time |-> times,
    vars |-> [ v \in Range(varList) \ {missing} |->
                 [ t \in 1..Len(times) |->
                     IF v = peakVar \/ v = tieVar THEN peakVal
                     ELSE LowVals[((IndexOf(varList, v) + 3 * t + shift) % Len(LowVals)) + 1] ] ] ]

(***************************************************************************)
(* Tables (pandas DataFrame) and vectors (pandas Series).                  *)
(***************************************************************************)
NewFrame(index) == [index |-> index, cols |-> <<>>, data |-> <<>>]
HasCol(t, c) == Has(t.cols, c)
Col(t, c) == t.data[IndexOf(t.cols, c)]
SetCol(t, c, s) ==
  IF HasCol(t, c) THEN [t EXCEPT !.data[IndexOf(t.cols, c)] = s]
  ELSE [t EXCEPT !.cols = Append(@, c), !.data = Append(@, s)]

NoErr == [kind |-> "", var |-> "", code |-> <<>>]
Err(kind, var, code) == [kind |-> kind, var |-> var, code |-> code]

\* df.a + df.b + ... for the columns named in ing, at row i, left to right
RECURSIVE SumCols(_, _, _, _)
SumCols(t, ing, n, i) ==
  IF n = 1 THEN Col(t, ing[1])[i]
  ELSE FAdd(SumCols(t, ing, n - 1, i), Col(t, ing[n])[i])

\* the right-hand side of one statement: the error it raises, or its series
Rhs(st, ds, t) ==
  IF st.var \notin DOMAIN ds.vars THEN [err |-> Err("AttributeError", st.var, <<>>), s |-> <<>>]
  ELSE IF st.ing = <<>> THEN [err |-> NoErr, s |-> ds.vars[st.var]]
  ELSE IF ~HasCol(t, st.pred) THEN [err |-> Err("AttributeError", "", st.pred), s |-> <<>>]
  ELSE IF Len(ds.vars[st.var]) # Len(t.index) THEN [err |-> Err("ValueError", "", st.col), s |-> <<>>]
  ELSE IF \E j \in 1..Len(st.ing) : ~HasCol(t, st.ing[j])
       THEN [err |-> Err("AttributeError", "",
                         st.ing[CHOOSE j \in 1..Len(st.ing) :
                                  /\ ~HasCol(t, st.ing[j])
                                  /\ \A h \in 1..(j - 1) : HasCol(t, st.ing[h])]),
             s |-> <<>>]
  ELSE [err |-> NoErr,
        s |-> [i \in 1..Len(t.index) |->
                 FAdd(FAdd(ds.vars[st.var][i], FMul(Col(t, st.pred)[i], st.k1)),
                      FMul(st.k2, SumCols(t, st.ing, Len(st.ing), i)))]]

\* one statement df[col] = ... on table t: the table afterwards and the error
Assign(st, t, r) ==
  IF r.err # NoErr THEN [t |-> t, err |-> r.err]
  ELSE IF Len(r.s) # Len(t.index) THEN [t |-> t, err |-> Err("ValueError", "", st.col)]
  ELSE [t |-> SetCol(t, st.col, r.s), err |-> NoErr]
RunStmt(st, ds, t) == Assign(st, t, Rhs(st, ds, t))

\* the statements stmts[lo..hi] run in order on table t; the first error ends the cell
\* (the first half, then the second half on the table the first half leaves)
RECURSIVE RunStmts(_, _, _, _, _)
RunStmts(stmts, lo, hi, ds, t) ==
  IF lo > hi THEN [t |-> t, err |-> NoErr]
  ELSE IF lo = hi THEN RunStmt(stmts[lo], ds, t)
  ELSE LET mid == (lo + hi) \div 2
           a == RunStmts(stmts, lo, mid, ds, t)
       IN IF a.err # NoErr THEN a ELSE RunStmts(stmts, mid + 1, hi, ds, a.t)

\* t[t.index.year == 2016]
\* the rows of the year but the first row of the table
KeepAfterFirst(index) == {i \in 2..Len(index) : index[i] = TargetYear}
Keep(index) == {i \in 1..Len(index) : index[i] = TargetYear}
RECURSIVE Pick(_, _, _)
Pick(s, keep, i) ==
  IF i > Len(s) THEN <<>>
  ELSE (IF i \in keep THEN <<s[i]>> ELSE <<>>) \o Pick(s, keep, i + 1)
YearFilter(t) ==
  LET keep == Keep(t.index) IN
  [ index |-> Pick(t.index, keep, 1), cols |-> t.cols,
    data |-> [c \in 1..Len(t.cols) |-> Pick(t.data[c], keep, 1)] ]

\* Series.mean(): the sequential binary32 sum divided by the count; NaN when empty
RECURSIVE SumSeq(_, _)
SumSeq(s, n) == IF n = 1 THEN s[1] ELSE FAdd(SumSeq(s, n - 1), s[n])
Mean(s) == IF Len(s) = 0 THEN NaN ELSE FDiv(SumSeq(s, Len(s)), FromInt(Len(s)))
ColMeans(t) == [labels |-> t.cols, values |-> [c \in 1..Len(t.cols) |-> Mean(t.data[c])]]

\* Series.max(): NaN is skipped; NaN when nothing is left
MaxSeq(s) ==
  LET nums == Range(s) \ {NaN} IN
  IF nums = {} THEN NaN
  ELSE CHOOSE m \in nums : \A y \in nums : ~FLess(m, y)
SeriesMax(v) == MaxSeq(v.values)

\* v[v == v.max()]: the entries equal to the maximum, in the vector's order
EqualTo(v, m) == {i \in 1..Len(v.values) : m # NaN /\ v.values[i] = m}
Where(v, keep) == [labels |-> Pick(v.labels, keep, 1), values |-> Pick(v.values, keep, 1)]
WhereMax(v) == Where(v, EqualTo(v, SeriesMax(v)))

HasLabel(v, c) == Has(v.labels, c)
At(v, c) == v.values[IndexOf(v.labels, c)]


(***************************************************************************)
(* The edge loop of a rendering cell.                                      *)
(***************************************************************************)
Scalar(v) == [arr |-> FALSE, v |-> <<v>>]
Array(s) == [arr |-> TRUE, v |-> s]

\* bool(c) of a comparison result c: the comparison itself for scalars and
\* one-element arrays, ValueError for arrays of two or more elements; for an
\* empty array NumPy before 2.2 answers False and NumPy from 2.2 raises.
Truth(c, emptyRaises) ==
  IF Len(c) = 1 THEN IF c[1] THEN "T" ELSE "F"
  ELSE IF Len(c) = 0 /\ ~emptyRaises THEN "F"
  ELSE "ValueError"

\* nnvalue = max(0.5, min(10., nvalue)) as Python evaluates it
PyMin10(nvalue, emptyRaises) ==
  LET t == Truth([j \in 1..Len(nvalue.v) |-> FLess(nvalue.v[j], F10)], emptyRaises) IN
  IF t = "ValueError" THEN [ok |-> FALSE, r |-> nvalue]
  ELSE [ok |-> TRUE, r |-> IF t = "T" THEN nvalue ELSE Scalar(F10)]
\* the upper clamp alone: no floor of 0.5
PyMax0_5NoFloor(m, emptyRaises) ==
  LET t == Truth([j \in 1..Len(m.v) |-> FLess(F0_5, m.v[j])], emptyRaises) IN
  IF t = "ValueError" THEN [ok |-> FALSE, r |-> m]
  ELSE [ok |-> TRUE, r |-> m]
PyMax0_5(m, emptyRaises) ==
  LET t == Truth([j \in 1..Len(m.v) |-> FLess(F0_5, m.v[j])], emptyRaises) IN
  IF t = "ValueError" THEN [ok |-> FALSE, r |-> m]
  ELSE [ok |-> TRUE, r |-> IF t = "T" THEN m ELSE Scalar(F0_5)]

Blue == "#0066CC"
Red == "#CC0000"
Black == "#000000B0"

\* flo = fl[0:2]; fli = fl[2:]
Source(fl) == Take(fl, 2)
\* the destination taken one character late: fl[3:]
DestFromThird(fl) == Drop(fl, 3)
Dest(fl) == Drop(fl, 2)

\* nvalue = value * (x / maxwidth), an array as long as maxwidth
NValue(value, xv, mwidth) ==
  Array([j \in 1..Len(mwidth) |-> FMul(value, FDiv(FromInt(xv), mwidth[j]))])

\* the branch taken by  if value < 1e-5 ... elif value < 0.2 ... else ...
\* the branches without the test for value < 1e-5
TierWithoutNegligible(value) ==
  IF LessThan0_2(value) THEN "minor"
  ELSE "significant"
Tier(value) ==
  IF LessThan1em5(value) THEN "negligible"
  ELSE IF LessThan0_2(value) THEN "minor"
  ELSE "significant"

\* one pass of the loop body for edge code fl: the error raised, or the edge
Raised(kind, fl) == [err |-> Err(kind, "", fl), e |-> <<>>]
\* g.edge(flo, fli, penwidth=str(w), color=col)
Edge(fl, value, col, w) ==
  [err |-> NoErr,
   e |-> <<[tail |-> Source(fl), head |-> Dest(fl), penwidth |-> w, color |-> col,
            fl |-> fl, value |-> value]>>]
\* max(0.5, lo) on the outcome lo of min(10., nvalue)
Floor(lo, emptyRaises) == IF ~lo.ok THEN lo ELSE PyMax0_5(lo.r, emptyRaises)
\* the else branch, nnvalue being the outcome of max(0.5, min(10., nvalue))
ElseBranch(fl, value, nnvalue) ==
  IF ~nnvalue.ok THEN Raised("ValueError", fl)
  ELSE Edge(fl, value, Black, nnvalue.r.v[1])
Branch(fl, value, tier, xv, mwidth, emptyRaises) ==
  IF tier = "negligible" THEN Edge(fl, value, Blue, F0_5)
  ELSE IF tier = "minor" THEN Edge(fl, value, Red, F0_5)
  ELSE ElseBranch(fl, value,
                   Floor(PyMin10(NValue(value, xv, mwidth), emptyRaises), emptyRaises))
EdgeFor(fl, means, xv, mwidth, emptyRaises) ==
  IF ~HasLabel(means, fl) THEN Raised("KeyError", fl)
  ELSE Branch(fl, At(means, fl), Tier(At(means, fl)), xv, mwidth, emptyRaises)

\* for fl in fluxes: ... g.edge(...); the first error ends the loop
\* the first pass that raises, among the passes res; one past the last when none does
FirstRaise(res) ==
  LET bad == {i \in 1..Len(res) : res[i].err # NoErr} IN
  IF bad = {} THEN Len(res) + 1 ELSE CHOOSE i \in bad : \A j \in bad : i <= j
Drawn(g, res, stop) ==
  [g |-> <<[g EXCEPT !.edges = @ \o [i \in 1..(stop - 1) |-> res[i].e[1]]]>>,
   err |-> IF stop > Len(res) THEN NoErr ELSE res[stop].err]
UpToFirstRaise(g, res) == Drawn(g, res, FirstRaise(res))
DrawEdges(list, means, xv, mwidth, g, emptyRaises) ==
  UpToFirstRaise(g, [i \in 1..Len(list) |-> EdgeFor(list[i], means, xv, mwidth, emptyRaises)])

\* a graph: its output file, the nodes placed in its subgraph, its edges and its
\* styled nodes; maxwidth records the normalisation array its edges were computed with
Digraph(filename, placed, mwidth) ==
  [filename |-> filename, placed |-> placed, edges |-> <<>>, nodes |-> <<>>,
   maxwidth |-> mwidth]


(***************************************************************************)
(* Node styling.                                                           *)
(***************************************************************************)
\* rint on binary32: to the nearest integer, ties to even
FRint(v) ==
  IF v = NaN \/ v = Inf \/ v = Zero THEN v
  ELSE IF v[2] >= 0 THEN v
  ELSE IF -v[2] > 24 THEN Zero
  ELSE LET k == -v[2]
           q == v[1] \div Pow2(k)
           r == v[1] % Pow2(k)
           half == Pow2(k - 1)
       IN FromInt(IF r > half \/ (r = half /\ q % 2 = 1) THEN q + 1 ELSE q)
\* round(v, 1) of a binary32 scalar: rint(v * 10) / 10
Round1(v) == FDiv(FRint(FMul(v, F10)), F10)

ColorsD ==
  [k \in {"animal", "bacteria", "plankton", "matter", "other"} |->
     CASE k = "animal" -> "#3498db" [] k = "bacteria" -> "#e74c3c"
       [] k = "plankton" -> "#2ecc71" [] k = "matter" -> "#f39c12" [] OTHER -> "#95a5a6"]
ColorsS ==
  [k \in {"animal", "bacteria", "plant", "matter", "other"} |->
     CASE k = "animal" -> "#3498db" [] k = "bacteria" -> "#e74c3c"
       [] k = "plant" -> "#2ecc71" [] k = "matter" -> "#f39c12" [] OTHER -> "#95a5a6"]

\* a call style_node(name, text [+ str(round(stocks.<name>, 1))], colors[cat], shape)
Call(name, text, annotated, cat, shape) ==
  [name |-> name, text |-> text, annotated |-> annotated, cat |-> cat, shape |-> shape]
StyleCallsD ==
  << Call(Y2, "Deposit\nFeeder\n", TRUE, "animal", "ellipse"),
     Call(Y3, "Susp.\nFeeder\n", TRUE, "animal", "ellipse"),
     Call(Y4, "Meiofauna\n", TRUE, "animal", "ellipse"),
     Call(H1, "Aerobic\nBacteria\n", TRUE, "bacteria", "ellipse"),
     Call(H2, "Anaerobic\nBacteria\n", TRUE, "bacteria", "ellipse"),
     Call(P1, "Diatoms", FALSE, "plankton", "square"),
     Call(P2, "Nanophyto", FALSE, "plankton", "square"),
     Call(P3, "Picophyto", FALSE, "plankton", "square"),
     Call(R4, "Small\nPOM", FALSE, "matter", "square"),
     Call(R6, "Medium\nPOM", FALSE, "matter", "square"),
     Call(R8, "Large\nPOM", FALSE, "matter", "square"),
     Call(Q1, "DOM\n", TRUE, "matter", "ellipse"),
     Call(Q6, "sPOM\n", TRUE, "matter", "ellipse"),
     Call(Q7, "rPOM\n", TRUE, "matter", "ellipse"),
     Call(G3, "Dissolved\nInorganic\nCarbon", FALSE, "other", "ellipse") >>
StyleCallsS ==
  << Call(P1, "Diatoms", FALSE, "plant", "square"),
     Call(P2, "Nanophyto", FALSE, "plant", "square"),
     Call(P3, "Picophyto", FALSE, "plant", "square"),
     Call(R4, "Small\nPOM", FALSE, "matter", "square"),
     Call(R6, "Medium\nPOM", FALSE, "matter", "square"),
     Call(R8, "Large\nPOM", FALSE, "matter", "square"),
     Call(Q1, "DOM\n", TRUE, "matter", "ellipse"),
     Call(Q6, "sPOM\n", TRUE, "matter", "ellipse"),
     Call(Q7, "rPOM\n", TRUE, "matter", "ellipse"),
     Call(G3, "Dissolved\nInorganic\nCarbon", FALSE, "other", "square") >>

\* g.node(name, label, shape=..., fillcolor=...): the attributes a node is rendered
\* with are those of the last statement that names it
SetNode(g, n) ==
  IF \E i \in 1..Len(g.nodes) : g.nodes[i].name = n.name
  THEN [g EXCEPT !.nodes[CHOOSE i \in 1..Len(g.nodes) : g.nodes[i].name = n.name] = n]
  ELSE [g EXCEPT !.nodes = Append(@, n)]

\* one call of style_node; stocks and g are <<>> when the name is unbound
StyleNode(c, stocks, stocksName, cols, g, gName) ==
  IF c.annotated /\ ~Bound(stocks) THEN [g |-> g, err |-> Err("NameError", stocksName, <<>>)]
  ELSE IF c.annotated /\ ~HasLabel(Val(stocks), c.name)
       THEN [g |-> g, err |-> Err("AttributeError", "", c.name)]
  ELSE IF ~Bound(g) THEN [g |-> g, err |-> Err("NameError", gName, <<>>)]
  ELSE [g |-> <<SetNode(Val(g),
                  [name |-> c.name, text |-> c.text,
                   stock |-> IF c.annotated THEN <<Round1(At(Val(stocks), c.name))>>
                             ELSE <<>>,
                   fillcolor |-> cols[c.cat], shape |-> c.shape])>>,
        err |-> NoErr]

\* the calls calls[lo..hi] in order; the first error ends the cell
RECURSIVE StyleNodes(_, _, _, _, _, _, _, _)
StyleNodes(calls, lo, hi, stocks, stocksName, cols, g, gName) ==
  IF lo > hi THEN [g |-> g, err |-> NoErr]
  ELSE IF lo = hi THEN StyleNode(calls[lo], stocks, stocksName, cols, g, gName)
  ELSE LET mid == (lo + hi) \div 2
           a == StyleNodes(calls, lo, mid, stocks, stocksName, cols, g, gName)
       IN IF a.err # NoErr THEN a
          ELSE StyleNodes(calls, mid + 1, hi, stocks, stocksName, cols, a.g, gName)


(***************************************************************************)
(* State: the two input files, the literal edge lists of the rendering     *)
(* cells, the names of the notebook's namespace, the image files written,  *)
(* the outcome of the last run of every cell, and the cell run last (0     *)
(* before the first run).                                                  *)
(***************************************************************************)
VARIABLES mode, pc, numpy22, fileD, fileS, listD, listS,
          xd, df, dv, dvm, dfm, dvmm, dfmm, stdoutD, mw,
          xe, rf, rv, rvm, rfm, rvmm, rfmm, stdoutS, sw,
          maxw, minsize, maxwidth, x, fluxes, colors, ns, style_node,
          png, outcome, manual, last

inputs == <<mode, numpy22, fileD, fileS, listD, listS>>
detailed == <<xd, df, dv, dvm, dfm, dvmm, dfmm, stdoutD, mw>>
simplified == <<xe, rf, rv, rvm, rfm, rvmm, rfmm, stdoutS, sw>>
shared == <<maxw, minsize, maxwidth, x, fluxes, colors, ns, style_node>>
vars == <<inputs, detailed, simplified, shared, png, outcome, pc, manual, last>>

\* code cells, in notebook order
CellOrder ==
  << "load detailed", "deposition", "faunal", "stocks", "reduce detailed", "max detailed",
     "render detailed", "style detailed", "load simplified", "build simplified",
     "reduce simplified", "render simplified", "style simplified" >>
Cells == 1..Len(CellOrder)
Done == Len(CellOrder) + 1       \* the pass has run its last cell
Halted == Done + 1               \* the pass has stopped at an error
NotRun == Err("not run", "", <<>>)

\* A pass executes the cells top to bottom: "runall" stops at the first error,
\* "allowerrors" goes on with the next cell.  In mode "interactive" the pass is
\* Run All and the user then runs single cells of their choice.
CanRun(k) == pc = k \/ (mode = "interactive" /\ pc \in {Done, Halted} /\ manual < MaxManual)
Finish(k, e) ==
  /\ outcome' = [outcome EXCEPT ![k] = e]
  /\ pc' = IF pc # k THEN pc
           ELSE IF e = NoErr \/ mode = "allowerrors" THEN k + 1 ELSE Halted
  /\ manual' = IF pc # k THEN manual + 1 ELSE manual
  /\ last' = k

Files(times, shift, p, tie, hv, missing) ==
  [ d |-> MkFile(VarListD, times, shift, PeakVarsD[p], IF tie THEN TieVarD ELSE "",
                 HighVals[hv], missing),
    s |-> MkFile(VarListS, times, shift, PeakVarsS[p], IF tie THEN TieVarS ELSE "",
                 HighVals[(hv % Len(HighVals)) + 1], missing) ]

Fresh ==
  /\ xd = Undef /\ df = Undef /\ dv = Undef /\ dvm = Undef /\ dfm = Undef
  /\ dvmm = Undef /\ dfmm = Undef /\ stdoutD = Undef /\ mw = Undef
  /\ xe = Undef /\ rf = Undef /\ rv = Undef /\ rvm = Undef /\ rfm = Undef
  /\ rvmm = Undef /\ rfmm = Undef /\ stdoutS = Undef /\ sw = Undef
  /\ maxw = Undef /\ minsize = Undef /\ maxwidth = Undef /\ x = Undef
  /\ fluxes = Undef /\ colors = Undef /\ ns = Undef /\ style_node = Undef
  /\ png = {}
  /\ outcome = [k \in Cells |-> NotRun]
  /\ pc = 1
  /\ manual = 0
  /\ last = 0

\* Input files.  NumPy's answer for an empty array only matters when a window
\* can be empty, so both answers are taken for the files without a 2016 row.
HasTarget(times) == \E i \in 1..Len(times) : times[i] = TargetYear
FilesAre(times, shift, p, tie, hv, missing) ==
  /\ fileD = Files(times, shift, p, tie, hv, missing).d
  /\ fileS = Files(times, shift, p, tie, hv, missing).s

\* complete files: every time axis, background pattern and dominant flux, with and
\* without a tie for the maximum
InitComplete ==
  /\ mode = "runall"
  /\ \E times \in [1..NRows -> Years], shift \in 0..(NShift - 1),
        p \in 1..Len(PeakVarsD), tie \in BOOLEAN, hv \in 1..Len(HighVals) :
       /\ FilesAre(times, shift, p, tie, hv, "")
       /\ numpy22 \in (IF HasTarget(times) THEN {FALSE} ELSE BOOLEAN)
\* files that lack one variable
InitMissing ==
  /\ mode \in {"runall", "allowerrors"}
  /\ numpy22 = FALSE
  /\ \E times \in [1..NRows -> Years], missing \in MissingChoices \ {""} :
       FilesAre(times, 0, 1, FALSE, 1, missing)
\* an interactive session on complete files
InitInteractive ==
  /\ mode = "interactive"
  /\ numpy22 = FALSE
  /\ \E times \in [1..NRows -> Years], hv \in 1..Len(HighVals) :
       FilesAre(times, 0, 1, FALSE, hv, "")

Init ==
  /\ InitComplete \/ InitMissing \/ InitInteractive
  /\ listD = FluxesD
  /\ listS = FluxesS
  /\ Fresh

\* Edge lists whose code at position i is cut to three characters or extended to
\* five, for the behaviour of the edge loop on codes that are not four characters long.
BadPositions == {1, 4}
Cut(list, i) == [list EXCEPT ![i] = Take(@, 3)]
Extend(list, i) == [list EXCEPT ![i] = @ \o <<"X">>]
InitCodes ==
  /\ mode \in {"runall", "allowerrors"}
  /\ numpy22 = FALSE
  /\ \E times \in [1..NRows -> Years], hv \in 1..Len(HighVals) :
       FilesAre(times, 0, 1, FALSE, hv, "")
  /\ \/ listD = FluxesD /\ listS = FluxesS
     \/ \E i \in BadPositions : listD = Cut(FluxesD, i) /\ listS = Cut(FluxesS, i)
     \/ \E i \in BadPositions : listD = Extend(FluxesD, i) /\ listS = Extend(FluxesS, i)
  /\ Fresh

(***************************************************************************)
(* Detailed variant.                                                       *)
(***************************************************************************)
\* xd = xr.open_dataset(...); df = pd.DataFrame(index=xd.Y2_fYG3c.time.values)
CellLoadDetailed ==
  /\ CanRun(1)
  /\ xd' = <<fileD>>
  /\ IF "Y2_fYG3c" \in DOMAIN fileD.vars
     THEN df' = <<NewFrame(fileD.time)>> /\ Finish(1, NoErr)
     ELSE df' = df /\ Finish(1, Err("AttributeError", "Y2_fYG3c", <<>>))
  /\ UNCHANGED <<inputs, dv, dvm, dfm, dvmm, dfmm, stdoutD, mw, simplified, shared, png>>

\* the table name bound to the table the statements leave
Rebound(r) == [t |-> <<r.t>>, err |-> r.err]
\* a cell of statements  table[col] = ds.var ... : its table afterwards and its error
BuildCell(stmts, ds, dsName, t, tName) ==
  IF ~Bound(ds) THEN [t |-> t, err |-> Err("NameError", dsName, <<>>)]
  ELSE IF ~Bound(t) THEN [t |-> t, err |-> Err("NameError", tName, <<>>)]
  ELSE Rebound(RunStmts(stmts, 1, Len(stmts), Val(ds), Val(t)))

FluxTable(k, r) == df' = r.t /\ Finish(k, r.err)

CellDeposition ==
  /\ CanRun(2)
  /\ FluxTable(2, BuildCell(DepositionStmts, xd, "xd", df, "df"))
  /\ UNCHANGED <<inputs, xd, dv, dvm, dfm, dvmm, dfmm, stdoutD, mw, simplified, shared, png>>

CellFaunal ==
  /\ CanRun(3)
  /\ FluxTable(3, BuildCell(FaunalStmts, xd, "xd", df, "df"))
  /\ UNCHANGED <<inputs, xd, dv, dvm, dfm, dvmm, dfmm, stdoutD, mw, simplified, shared, png>>

StockTable(k, r) == dv' = r.t /\ Finish(k, r.err)

\* dv = pd.DataFrame(index=xd.Y2_fYG3c.time.values); dv['Q1'] = ...
CellStocks ==
  /\ CanRun(4)
  /\ IF ~Bound(xd) THEN dv' = dv /\ Finish(4, Err("NameError", "xd", <<>>))
     ELSE IF "Y2_fYG3c" \notin DOMAIN Val(xd).vars
     THEN dv' = dv /\ Finish(4, Err("AttributeError", "Y2_fYG3c", <<>>))
     ELSE StockTable(4, BuildCell(StockStmtsD, xd, "xd", <<NewFrame(Val(xd).time)>>, "dv"))
  /\ UNCHANGED <<inputs, xd, df, dvm, dfm, dvmm, dfmm, stdoutD, mw, simplified, shared, png>>


\* df = df[df.index.year == 2016]; dv = ...; dvm = dv.mean(); dfm = df.mean(); ...
CellReduceDetailed ==
  /\ CanRun(5)
  /\ IF ~Bound(df)
     THEN /\ Finish(5, Err("NameError", "df", <<>>))
          /\ UNCHANGED <<df, dv, dvm, dfm, dvmm, dfmm>>
     ELSE /\ df' = <<YearFilter(Val(df))>>
          /\ IF ~Bound(dv)
             THEN /\ Finish(5, Err("NameError", "dv", <<>>))
                  /\ UNCHANGED <<dv, dvm, dfm, dvmm, dfmm>>
             ELSE /\ dv' = <<YearFilter(Val(dv))>>
                  /\ dvm' = <<ColMeans(Val(dv'))>>
                  /\ dfm' = <<ColMeans(Val(df'))>>
                  /\ dvmm' = <<SeriesMax(Val(dvm'))>>
                  /\ dfmm' = <<SeriesMax(Val(dfm'))>>
                  /\ Finish(5, NoErr)
  /\ UNCHANGED <<inputs, xd, stdoutD, mw, simplified, shared, png>>

\* maxw = means[means == means.max()], a vector sliced from the named mean vector
Owned(w, name) == [owner |-> name, labels |-> w.labels, values |-> w.values]
MaxOf(means, name) == Owned(WhereMax(means), name)

\* maxw = dfm[dfm == dfm.max()]; print(maxw)
CellMaxDetailed ==
  /\ CanRun(6)
  /\ IF ~Bound(dfm)
     THEN Finish(6, Err("NameError", "dfm", <<>>)) /\ UNCHANGED <<maxw, stdoutD>>
     ELSE /\ maxw' = <<MaxOf(Val(dfm), "dfm")>>
          /\ stdoutD' = maxw'
          /\ Finish(6, NoErr)
  /\ UNCHANGED <<inputs, xd, df, dv, dvm, dfm, dvmm, dfmm, mw, simplified,
                 minsize, maxwidth, x, fluxes, colors, ns, style_node, png>>

\* a rendering cell from "mw = Digraph(...)" on: the graph afterwards and the error
Render(filename, placed, list, means, meansName, mwidth) ==
  IF list # <<>> /\ ~Bound(means)
  THEN [g |-> <<Digraph(filename, placed, mwidth)>>, err |-> Err("NameError", meansName, <<>>)]
  ELSE DrawEdges(list, Val(means), 10, mwidth.values, Digraph(filename, placed, mwidth),
                 numpy22)
\* the graph name bound by a cell of the detailed variant, and the image written by
\* its closing view() or render() when nothing was raised before it
GraphD(k, r) ==
  /\ mw' = r.g
  /\ png' = IF r.err = NoErr THEN png \cup {Val(r.g).filename} ELSE png
  /\ Finish(k, r.err)

CellRenderDetailed ==
  /\ CanRun(7)
  /\ minsize' = <<F0_5>>
  /\ IF ~Bound(maxw)
     THEN /\ Finish(7, Err("NameError", "maxw", <<>>))
          /\ UNCHANGED <<maxwidth, mw, x, fluxes, png>>
     ELSE /\ maxwidth' = <<[owner |-> Val(maxw).owner, values |-> Val(maxw).values]>>
          /\ x' = <<10>>
          /\ fluxes' = <<listD>>
          /\ GraphD(7, Render("Detailed_benthic_model_L4", LayoutD, listD, dfm, "dfm",
                               Val(maxwidth')))
  /\ UNCHANGED <<inputs, xd, df, dv, dvm, dfm, dvmm, dfmm, stdoutD, simplified,
                 maxw, colors, ns, style_node>>

F1_5 == <<12582912, -23>>      \* 1.5

\* colors = {...}; ns = 1.5; def style_node(...): mw.node(...); style_node(...) ...; mw.view()
CellStyleDetailed ==
  /\ CanRun(8)
  /\ colors' = <<ColorsD>>
  /\ ns' = <<F1_5>>
  /\ style_node' = <<"mw">>
  /\ GraphD(8, StyleNodes(StyleCallsD, 1, Len(StyleCallsD), dvm, "dvm", ColorsD, mw, "mw"))
  /\ UNCHANGED <<inputs, xd, df, dv, dvm, dfm, dvmm, dfmm, stdoutD, simplified,
                 maxw, minsize, maxwidth, x, fluxes>>

(***************************************************************************)
(* Simplified variant.                                                     *)
(***************************************************************************)
\* xe = xr.open_dataset(...); rf = pd.DataFrame(index=xe.Q6_c.time.values)
CellLoadSimplified ==
  /\ CanRun(9)
  /\ xe' = <<fileS>>
  /\ IF "Q6_c" \in DOMAIN fileS.vars
     THEN rf' = <<NewFrame(fileS.time)>> /\ Finish(9, NoErr)
     ELSE rf' = rf /\ Finish(9, Err("AttributeError", "Q6_c", <<>>))
  /\ UNCHANGED <<inputs, detailed, rv, rvm, rfm, rvmm, rfmm, stdoutS, sw, shared, png>>

\* rf['R4Q6'] = ...; rv = pd.DataFrame(index=xe.Q6_c.time.values); rv['Q1'] = ...
StockTableS(k, s) == rv' = s.t /\ Finish(k, s.err)
FluxTableS(k, r) ==
  /\ rf' = r.t
  /\ IF r.err # NoErr THEN rv' = rv /\ Finish(k, r.err)
     ELSE IF "Q6_c" \notin DOMAIN Val(xe).vars
     THEN rv' = rv /\ Finish(k, Err("AttributeError", "Q6_c", <<>>))
     ELSE StockTableS(k, BuildCell(StockStmtsS, xe, "xe", <<NewFrame(Val(xe).time)>>, "rv"))
CellBuildSimplified ==
  /\ CanRun(10)
  /\ FluxTableS(10, BuildCell(DepositionStmts \o ReminStmts, xe, "xe", rf, "rf"))
  /\ UNCHANGED <<inputs, detailed, xe, rvm, rfm, rvmm, rfmm, stdoutS, sw, shared, png>>

\* rf = rf[rf.index.year == 2016]; ...; maxw = rfm[rfm == rfm.max()]; print(maxw)
CellReduceSimplified ==
  /\ CanRun(11)
  /\ IF ~Bound(rf)
     THEN /\ Finish(11, Err("NameError", "rf", <<>>))
          /\ UNCHANGED <<rf, rv, rvm, rfm, rvmm, rfmm, maxw, stdoutS>>
     ELSE /\ rf' = <<YearFilter(Val(rf))>>
          /\ IF ~Bound(rv)
             THEN /\ Finish(11, Err("NameError", "rv", <<>>))
                  /\ UNCHANGED <<rv, rvm, rfm, rvmm, rfmm, maxw, stdoutS>>
             ELSE /\ rv' = <<YearFilter(Val(rv))>>
                  /\ rvm' = <<ColMeans(Val(rv'))>>
                  /\ rfm' = <<ColMeans(Val(rf'))>>
                  /\ rvmm' = <<SeriesMax(Val(rvm'))>>
                  /\ rfmm' = <<SeriesMax(Val(rfm'))>>
                  /\ maxw' = <<MaxOf(Val(rfm'), "rfm")>>
                  /\ stdoutS' = maxw'
                  /\ Finish(11, NoErr)
  /\ UNCHANGED <<inputs, detailed, xe, sw, minsize, maxwidth, x, fluxes, colors, ns,
                 style_node, png>>

GraphS(k, r) ==
  /\ sw' = r.g
  /\ png' = IF r.err = NoErr THEN png \cup {Val(r.g).filename} ELSE png
  /\ Finish(k, r.err)

CellRenderSimplified ==
  /\ CanRun(12)
  /\ minsize' = <<F0_5>>
  /\ IF ~Bound(maxw)
     THEN /\ Finish(12, Err("NameError", "maxw", <<>>))
          /\ UNCHANGED <<maxwidth, sw, x, fluxes, png>>
     ELSE /\ maxwidth' = <<[owner |-> Val(maxw).owner, values |-> Val(maxw).values]>>
          /\ x' = <<10>>
          /\ fluxes' = <<listS>>
          /\ GraphS(12, Render("Simplified_benthic_model_L4", LayoutS, listS, rfm, "rfm",
                                Val(maxwidth')))
  /\ UNCHANGED <<inputs, detailed, xe, rf, rv, rvm, rfm, rvmm, rfmm, stdoutS,
                 maxw, colors, ns, style_node>>

CellStyleSimplified ==
  /\ CanRun(13)
  /\ colors' = <<ColorsS>>
  /\ ns' = <<F1_5>>
  /\ style_node' = <<"sw">>
  /\ GraphS(13, StyleNodes(StyleCallsS, 1, Len(StyleCallsS), rvm, "rvm", ColorsS, sw, "sw"))
  /\ UNCHANGED <<inputs, detailed, xe, rf, rv, rvm, rfm, rvmm, rfmm, stdoutS,
                 maxw, minsize, maxwidth, x, fluxes>>

Next ==
  \/ CellLoadDetailed \/ CellDeposition \/ CellFaunal \/ CellStocks
  \/ CellReduceDetailed \/ CellMaxDetailed \/ CellRenderDetailed \/ CellStyleDetailed
  \/ CellLoadSimplified \/ CellBuildSimplified \/ CellReduceSimplified
  \/ CellRenderSimplified \/ CellStyleSimplified

Spec == Init /\ [][Next]_vars
SpecCodes == InitCodes /\ [][Next]_vars


(***************************************************************************)
(* Properties.                                                             *)
(***************************************************************************)
GraphsNow == (IF Bound(mw) THEN {Val(mw)} ELSE {}) \cup (IF Bound(sw) THEN {Val(sw)} ELSE {})
EdgesOf(g) == Range(g.edges)
FLeq(a, b) == a = b \/ FLess(a, b)
Clamp(v, lo, hi) == IF FLess(v, lo) THEN lo ELSE IF FLess(hi, v) THEN hi ELSE v
\* v < 0.2 and v < 1e-5 for binary32 v, by the binary32 numbers next to the thresholds:
\* 0.2 lies just below <<13421773, -26>>, 1e-5 just above <<10995116, -40>>
Below0_2(v) == FLess(v, <<13421773, -26>>)
Below1em5(v) == FLess(v, <<10995117, -40>>)
Significant(e) == e.value # NaN /\ ~Below0_2(e.value)
\* the graph was normalised with one positive maximum
PositiveScalar(g) == Len(g.maxwidth.values) = 1 /\ FLess(Zero, g.maxwidth.values[1])

\* C1: every edge with mean flux v >= 0.2, drawn with a maximum M > 0, has pen width
\* clamp(v * (10 / M), 0.5, 10.0) in binary32 arithmetic, and among the edges of one
\* graph the width does not decrease when v increases.
C1_SignificantWidth ==
  \A g \in GraphsNow : PositiveScalar(g) =>
    /\ \A e \in EdgesOf(g) : Significant(e) =>
         e.penwidth = Clamp(FMul(e.value, FDiv(F10, g.maxwidth.values[1])), F0_5, F10)
    /\ \A e1, e2 \in EdgesOf(g) :
         Significant(e1) /\ Significant(e2) /\ FLeq(e1.value, e2.value)
           => FLeq(e1.penwidth, e2.penwidth)
C1_Witness ==
  \E g \in GraphsNow : PositiveScalar(g) /\
    \E e1, e2 \in EdgesOf(g) :
      /\ Significant(e1) /\ Significant(e2) /\ FLess(e1.value, e2.value)
      /\ FLess(F0_5, e1.penwidth) /\ FLess(e1.penwidth, e2.penwidth)
      /\ FLess(e2.penwidth, F10)

\* C2: every edge with mean flux v < 0.2 has pen width 0.5 whatever the maximum is,
\* and is blue when v < 1e-5 and red when 1e-5 <= v < 0.2.
C2_LowTiers ==
  \A g \in GraphsNow : \A e \in EdgesOf(g) : Below0_2(e.value) =>
    /\ e.penwidth = F0_5
    /\ e.color = IF Below1em5(e.value) THEN Blue ELSE Red
C2_Witness ==
  \E g \in GraphsNow : PositiveScalar(g) /\
    /\ \E e \in EdgesOf(g) : e.value # Zero /\ Below1em5(e.value) /\ e.color = Blue
    /\ \E e \in EdgesOf(g) : ~Below1em5(e.value) /\ Below0_2(e.value) /\ e.color = Red
                             /\ FMul(e.value, FDiv(F10, g.maxwidth.values[1])) # F0_5

\* C3: the edge of the column with the maximum mean flux, drawn as a significant edge
\* with that maximum as normalisation, has pen width exactly 10.0.
C3_MaxMapsToTen ==
  \A g \in GraphsNow : PositiveScalar(g) =>
    \A e \in EdgesOf(g) :
      Significant(e) /\ e.value = g.maxwidth.values[1] => e.penwidth = F10

\* the first code of an edge list that is not four characters long (0: none)
FirstBad(list) ==
  IF \A i \in 1..Len(list) : Len(list[i]) = 4 THEN 0
  ELSE CHOOSE i \in 1..Len(list) :
         Len(list[i]) # 4 /\ \A j \in 1..(i - 1) : Len(list[j]) = 4
RenderRuns ==
  { [cell |-> 7, list |-> listD, g |-> mw, means |-> dfm],
    [cell |-> 12, list |-> listS, g |-> sw, means |-> rfm] }
\* the loop of the rendering cell has come to the first code that is not four characters
AtBadCode(r) ==
  /\ outcome[r.cell] # NotRun /\ Bound(r.g) /\ Bound(r.means)
  /\ FirstBad(r.list) # 0
  /\ Len(Val(r.g).edges) = FirstBad(r.list) - 1
SplitInHalves ==
  \A g \in GraphsNow : \A e \in EdgesOf(g) :
    Len(e.fl) = 4 => e.tail = <<e.fl[1], e.fl[2]>> /\ e.head = <<e.fl[3], e.fl[4]>>
NoEdgeForBadCode ==
  \A r \in RenderRuns : Bound(r.g) =>
    /\ \A e \in EdgesOf(Val(r.g)) : Len(e.fl) = 4
    /\ FirstBad(r.list) # 0 => Len(Val(r.g).edges) < FirstBad(r.list)

Aligned(raw, t, times) ==
  IF Len(t.index) = Len(raw) THEN raw ELSE Pick(raw, Keep(times), 1)
IsReturn(c) == c \in {Y2 \o Q6, Y3 \o Q6, Y4 \o Q6}

\* C5: in the detailed Flux Table, at every time step,
\*   Y2Q6 = Y2_fYQPc + 0.8*Q6Y2 + 0.35*(H1Y2+H2Y2+Y4Y2),
\*   Y3Q6 = Y3_fYQPc + 0.85*Q6Y3 + 0.35*(P1Y3+P2Y3+P3Y3+R6Y3+H1Y3),
\*   Y4Q6 = Y4_fYQPc + 0.4*Q6Y4 + 0.25*(Y4Y4+H1Y4+H2Y4),
\* and every other column is the series of its source variable.
C5_ReturnEdges ==
  Bound(df) =>
    LET t == Val(df)
        raw(v) == Aligned(fileD.vars[v], t, fileD.time)
        c(a, b) == Col(t, a \o b)
        rows == 1..Len(t.index)
    IN
    /\ HasCol(t, Y2 \o Q6) => \A i \in rows :
         c(Y2, Q6)[i] = FAdd(FAdd(raw("Y2_fYQPc")[i], FMul(F0_8, c(Q6, Y2)[i])),
                             FMul(F0_35, FAdd(FAdd(c(H1, Y2)[i], c(H2, Y2)[i]), c(Y4, Y2)[i])))
    /\ HasCol(t, Y3 \o Q6) => \A i \in rows :
         c(Y3, Q6)[i] = FAdd(FAdd(raw("Y3_fYQPc")[i], FMul(F0_85, c(Q6, Y3)[i])),
                             FMul(F0_35, FAdd(FAdd(FAdd(FAdd(c(P1, Y3)[i], c(P2, Y3)[i]),
                                                        c(P3, Y3)[i]), c(R6, Y3)[i]),
                                              c(H1, Y3)[i])))
    /\ HasCol(t, Y4 \o Q6) => \A i \in rows :
         c(Y4, Q6)[i] = FAdd(FAdd(raw("Y4_fYQPc")[i], FMul(F0_4, c(Q6, Y4)[i])),
                             FMul(F0_25, FAdd(FAdd(c(Y4, Y4)[i], c(H1, Y4)[i]), c(H2, Y4)[i])))
    /\ \A st \in Range(DepositionStmts) \cup Range(FaunalStmts) :
         HasCol(t, st.col) /\ ~IsReturn(st.col) => Col(t, st.col) = raw(st.var)
C5_Witness ==
  /\ Bound(df) /\ HasCol(Val(df), Y4 \o Q6)
  /\ Len(Val(df).index) = 1 /\ Len(fileD.time) > 1
  /\ Col(Val(df), Y3 \o Q6)[1] # Aligned(fileD.vars["Y3_fYQPc"], Val(df), fileD.time)[1]
  /\ Col(Val(df), Q6 \o Y3)[1] # Zero

\* the reducing cell of each variant, with the table it filters and what follows from it
ReduceRuns ==
  { [cell |-> 5, table |-> df, means |-> dfm, render |-> 7, g |-> mw, name |-> "dfm",
     list |-> listD],
    [cell |-> 11, table |-> rf, means |-> rfm, render |-> 12, g |-> sw, name |-> "rfm",
     list |-> listS] }
\* the reducing cell has filtered the table and no row of 2016 was left
EmptyWindow(r) ==
  outcome[r.cell] # NotRun /\ Bound(r.table) /\ Val(r.table).index = <<>>

\* C6: when the data has no time step in 2016, the run fails at the filtering step and
\* goes on to neither the means nor the rendering.
C6_EmptyWindowFails ==
  \A r \in ReduceRuns : EmptyWindow(r) =>
    /\ outcome[r.cell].kind # ""
    /\ ~Bound(r.means)
    /\ ~Bound(r.g)

\* several columns of the means share the maximum
Tied(r) == Bound(r.means) /\ Len(WhereMax(Val(r.means)).labels) >= 2

\* C7: when several columns share the maximum mean flux, the rendering normalises with
\* the one value of the first tied column and its loop draws every edge.
C7_TieUsesFirst ==
  \A r \in ReduceRuns : Tied(r) /\ outcome[r.render] # NotRun /\ Bound(r.g)
                        /\ Val(r.g).maxwidth.owner = r.name =>
    /\ outcome[r.render] = NoErr
    /\ Len(Val(r.g).edges) = Len(r.list)
    /\ \A e \in EdgesOf(Val(r.g)) : Significant(e) =>
         e.penwidth = Clamp(FMul(e.value, FDiv(F10, WhereMax(Val(r.means)).values[1])),
                            F0_5, F10)

\* the cells that build a Flux Table, with what the later cells make of it
BuildRuns ==
  { [cell |-> 2, table |-> df, means |-> dfm, g |-> mw, full |-> Len(DepositionStmts) + Len(FaunalStmts)],
    [cell |-> 3, table |-> df, means |-> dfm, g |-> mw, full |-> Len(DepositionStmts) + Len(FaunalStmts)],
    [cell |-> 10, table |-> rf, means |-> rfm, g |-> sw, full |-> Len(DepositionStmts) + Len(ReminStmts)] }
\* the cell stopped because the file has no variable of the name it asked for
MissingVariable(b) == outcome[b.cell].kind = "AttributeError" /\ outcome[b.cell].var # ""
\* means were taken of a table that lacks columns, and edges drawn from them
PartialConsumed(b) ==
  /\ Bound(b.table) /\ Len(Val(b.table).cols) < b.full
  /\ Bound(b.means) /\ Val(b.means).labels = Val(b.table).cols
  /\ Bound(b.g) /\ Val(b.g).edges # <<>>

\* C8: when a variable the table needs is absent from the file, the error names that
\* variable and no partly built table is left behind for the reducing and rendering
\* cells to use.
C8_MissingVariableFails ==
  \A b \in BuildRuns : MissingVariable(b) =>
    /\ outcome[b.cell].var \notin DOMAIN (IF b.cell = 10 THEN fileS ELSE fileD).vars
    /\ ~(Bound(b.table) /\ Val(b.table).cols # <<>>)
    /\ ~PartialConsumed(b)

\* the nodes of graph g carry the styling of the given calls and colours
StyledBy(g, calls, cols) ==
  \A n \in Range(g.nodes) : \E i \in 1..Len(calls) :
    /\ calls[i].name = n.name /\ calls[i].text = n.text /\ calls[i].shape = n.shape
    /\ n.fillcolor = cols[calls[i].cat]

\* C9: the two variants share no state: whatever is run and in whatever order, the
\* detailed graph is normalised with the maximum of the detailed means and styled by
\* the detailed calls, and the simplified graph likewise with its own.
C9_VariantsIndependent ==
  /\ Bound(mw) /\ Bound(dfm) =>
       /\ Val(mw).maxwidth.values = WhereMax(Val(dfm)).values
       /\ StyledBy(Val(mw), StyleCallsD, ColorsD)
  /\ Bound(sw) /\ Bound(rfm) =>
       /\ Val(sw).maxwidth.values = WhereMax(Val(rfm)).values
       /\ StyledBy(Val(sw), StyleCallsS, ColorsS)

CompartmentsD == {LayoutD[i].name : i \in 1..Len(LayoutD)}
CompartmentsS == {LayoutS[i].name : i \in 1..Len(LayoutS)}
WellFormed(code, comps) ==
  Len(code) = 4 /\ Take(code, 2) \in comps /\ Drop(code, 2) \in comps
\* as WellFormed, but the source may also be the phytoplankton group P4
WellFormedOrP4(code, comps) ==
  Len(code) = 4 /\ Take(code, 2) \in comps \cup {P4} /\ Drop(code, 2) \in comps
DrawnWellFormed ==
  /\ \A i \in 1..Len(FluxesD) : WellFormed(FluxesD[i], CompartmentsD)
  /\ \A i \in 1..Len(FluxesS) : WellFormed(FluxesS[i], CompartmentsS)
  /\ Bound(mw) => \A e \in EdgesOf(Val(mw)) :
                    e.tail \in CompartmentsD /\ e.head \in CompartmentsD
  /\ Bound(sw) => \A e \in EdgesOf(Val(sw)) :
                    e.tail \in CompartmentsS /\ e.head \in CompartmentsS

LabelledByStock(g, table, means) ==
  \A i \in 1..Len(g.nodes) :
    /\ (g.nodes[i].stock # <<>>) <=> HasCol(table, g.nodes[i].name)
    /\ g.nodes[i].stock # <<>> =>
         /\ HasLabel(means, g.nodes[i].name)
         /\ g.nodes[i].stock = <<Round1(At(means, g.nodes[i].name))>>
StyledD == last = 8 /\ outcome[8] = NoErr /\ Bound(mw) /\ Bound(dv) /\ Bound(dvm)
StyledS == last = 13 /\ outcome[13] = NoErr /\ Bound(sw) /\ Bound(rv) /\ Bound(rvm)

\* C11: when a styling cell has run without error, a compartment's label is its display
\* name followed by its mean stock rounded to one decimal place if and only if the
\* variant's Stock Table has a column for the compartment (name alone otherwise).
C11_LabelIffStock ==
  /\ StyledD => LabelledByStock(Val(mw), Val(dv), Val(dvm))
  /\ StyledS => LabelledByStock(Val(sw), Val(rv), Val(rvm))

(***************************************************************************)
(* Re-running the reducing cells.                                          *)
(***************************************************************************)
InYear(t) == \A i \in 1..Len(t.index) : t.index[i] = TargetYear
TablesNow == {Val(t) : t \in {df, dv, rf, rv} \ {Undef}}
\* the tables of a variant are filtered to the year and its mean vectors and maxima
\* are those of these tables
ReducedD ==
  /\ Bound(df) /\ Bound(dv) /\ InYear(Val(df)) /\ InYear(Val(dv))
  /\ dvm = <<ColMeans(Val(dv))>> /\ dfm = <<ColMeans(Val(df))>>
  /\ dvmm = <<SeriesMax(Val(dvm))>> /\ dfmm = <<SeriesMax(Val(dfm))>>
ReducedS ==
  /\ Bound(rf) /\ Bound(rv) /\ InYear(Val(rf)) /\ InYear(Val(rv))
  /\ rvm = <<ColMeans(Val(rv))>> /\ rfm = <<ColMeans(Val(rf))>>
  /\ rvmm = <<SeriesMax(Val(rvm))>> /\ rfmm = <<SeriesMax(Val(rfm))>>
  /\ maxw = <<MaxOf(Val(rfm), "rfm")>>

\* C12: the year filter applied to a filtered table returns the same table (rows, order
\* and values), for every Flux and Stock Table that occurs; and a run of a reducing
\* cell on tables already reduced leaves the tables, the mean vectors and the maxima
\* unchanged.
C12_FilterIdempotent ==
  /\ [](\A t \in TablesNow : YearFilter(YearFilter(t)) = YearFilter(t))
  /\ [][last' = 5 /\ ReducedD => UNCHANGED <<df, dv, dvm, dfm, dvmm, dfmm>>]_vars
  /\ [][last' = 11 /\ ReducedS => UNCHANGED <<rf, rv, rvm, rfm, rvmm, rfmm, maxw>>]_vars
\* the detailed reducing cell has been run again by hand after a complete pass, on a
\* full Flux Table from which the first run had removed some rows and kept others
C12_Witness ==
  /\ mode = "interactive" /\ pc = Done /\ manual >= 1 /\ last = 5 /\ outcome[5] = NoErr
  /\ ReducedD
  /\ Len(Val(df).cols) = Len(DepositionStmts) + Len(FaunalStmts)
  /\ Len(Val(df).index) > 0 /\ Len(Val(df).index) < Len(fileD.time)

(***************************************************************************)
(* Node shapes.                                                            *)
(***************************************************************************)
\* the compartments of the water column are those that deposit to the sediment; the
\* phase of the inorganic carbon pool G3 is left open
Phases == {"pelagic", "benthic"}
Depositing == {Source(DepositionStmts[i].col) : i \in 1..Len(DepositionStmts)}
PhaseOf(name, phaseG3) ==
  IF name = G3 THEN phaseG3 ELSE IF name \in Depositing THEN "pelagic" ELSE "benthic"
PhaseShape(phase) == IF phase = "pelagic" THEN "square" ELSE "ellipse"

\* C13: the shape of a node is determined by the phase of its compartment alone, square
\* for pelagic and ellipse for benthic, in both variants: whichever phase G3 has, every
\* styled node of both graphs has the shape of its compartment's phase (so a
\* compartment of both variants has one shape).
C13_ShapeByPhase ==
  \E phaseG3 \in Phases :
    \A g \in GraphsNow : \A i \in 1..Len(g.nodes) :
      g.nodes[i].shape = PhaseShape(PhaseOf(g.nodes[i].name, phaseG3))

(***************************************************************************)
(* Order of the column assignments.                                        *)
(***************************************************************************)
\* the columns read by a statement, and the columns assigned before position i
Reads(st) == IF st.ing = <<>> THEN {} ELSE {st.pred} \cup Range(st.ing)
Before(stmts, i) == {stmts[j].col : j \in 1..(i - 1)}
InOrder(stmts) == \A i \in 1..Len(stmts) : Reads(stmts[i]) \subseteq Before(stmts, i)
\* the error of reading a column the table does not have
MissingColumn(e) == e.kind = "AttributeError" /\ e.code # <<>>

\* C14: in the faunal cell every return column (Y2Q6, Y3Q6, Y4Q6) is assigned after all
\* the columns its formula reads; no run of the cell reads a column that is not yet
\* in the Flux Table, and a return column is in the table only together with the
\* columns it was computed from.
C14_DependencyOrder ==
  /\ InOrder(FaunalStmts)
  /\ ~MissingColumn(outcome[3])
  /\ Bound(df) =>
       \A i \in 1..Len(FaunalStmts) :
         HasCol(Val(df), FaunalStmts[i].col) =>
           \A c \in Reads(FaunalStmts[i]) : HasCol(Val(df), c)
\* the faunal cell has just run to its end and the three return columns are in the table
C14_Witness ==
  /\ last = 3 /\ outcome[3] = NoErr /\ Bound(df)
  /\ HasCol(Val(df), Y2 \o Q6) /\ HasCol(Val(df), Y3 \o Q6) /\ HasCol(Val(df), Y4 \o Q6)

====
